---- MODULE Spec2Model ----
(***************************************************************************)
(* Model of the kennitolur crate: the validating constructors             *)
(* Kennitala::new and Kennitala::from_u32, the packed u32 representation,  *)
(* the accessors and the Display implementation.                           *)
(*                                                                         *)
(* Strings are sequences of Unicode scalar values, byte arrays are         *)
(* sequences of 0..255.  The code indexes arrays from 0; K(a, i) reads     *)
(* element i of a 1-based sequence.  The model is that of a build with     *)
(* overflow checks and debug assertions enabled: an arithmetic overflow,   *)
(* a failed debug_assert!, an unwrap of Err or an index out of bounds      *)
(* yields PANIC, which every later operation propagates.                   *)
(***************************************************************************)
EXTENDS Integers, Sequences, FiniteSets

VARIABLES input, pc, result, fields, text

vars == <<input, pc, result, fields, text>>

(***************************************************************************)
(* Bounds of the input space.                                              *)
(***************************************************************************)
\* days 00..MaxDay
MaxDay == 32
\* months 00..MaxMonth
MaxMonth == 13
\* two-digit years 00..MaxYear (and 99)
MaxYear == 4
\* every string over Alphabet of at most MaxShortLen characters
MaxShortLen == 3
\* every integer 0..MaxSmallN is given to from_u32
MaxSmallN == 120

(***************************************************************************)
(* Machine arithmetic.                                                     *)
(***************************************************************************)
\* the outcome of an aborted computation; outside every unsigned range
PANIC == 0 - 1

u8_mul(a, b) == IF a = PANIC \/ b = PANIC \/ a * b > 255 THEN PANIC ELSE a * b

u8_add(a, b) == IF a = PANIC \/ b = PANIC \/ a + b > 255 THEN PANIC ELSE a + b

u8_sub(a, b) == IF a = PANIC \/ b = PANIC \/ a < b THEN PANIC ELSE a - b

u32_add(a, b) == IF a = PANIC \/ b = PANIC THEN PANIC ELSE a + b

u32_mul(a, b) == IF a = PANIC \/ b = PANIC THEN PANIC ELSE a * b

RECURSIVE Pow2(_)
Pow2(n) == IF n = 0 THEN 1 ELSE 2 * Pow2(n - 1)

\* x << n on u32, for the values below 2^27 the packing shifts
Shl(x, n) == IF x = PANIC THEN PANIC ELSE x * Pow2(n)

Shr(x, n) == x \div Pow2(n)

RECURSIVE BitAnd(_, _)
BitAnd(a, b) ==
    IF a = 0 \/ b = 0 THEN 0
    ELSE (a % 2) * (b % 2) + 2 * BitAnd(a \div 2, b \div 2)

K(a, i) == a[i + 1]

(***************************************************************************)
(* src/dates.rs                                                            *)
(***************************************************************************)
DAYS_IN_MONTH == <<31, 28, 31, 30, 31, 30, 31, 31, 30, 31, 30, 31>>

\* mutant: every fourth year is a leap year
is_leap_year_julian(year) == year % 4 = 0

is_leap_year(year) == (year % 4 = 0) /\ (year % 100 # 0 \/ year % 400 = 0)

days_in_month(month, year) ==
    IF (month = 2) /\ is_leap_year(year) THEN 29
    ELSE IF month - 1 \in 0..11 THEN K(DAYS_IN_MONTH, month - 1)
    ELSE PANIC

(***************************************************************************)
(* src/lib.rs: constants                                                   *)
(***************************************************************************)
VALIDATION_DIGITS == <<3, 2, 7, 6, 5, 4, 3, 2>>

DAY_MASK == 31
DAY_OFFSET == 0
MONTH_MASK == 480
MONTH_OFFSET == DAY_OFFSET + 5
YEAR_MASK == 65024
YEAR_OFFSET == MONTH_OFFSET + 4
REST_MASK == 67043328
\* mutant: the randoms field starts inside the year field
REST_OFFSET_overlapping == YEAR_OFFSET + 6
REST_OFFSET == YEAR_OFFSET + 7
CENTURY_MASK == 67108864
CENTURY_OFFSET == REST_OFFSET + 10

(***************************************************************************)
(* Result<Kennitala, KennitalaError>                                       *)
(***************************************************************************)
Ok(value) == [tag |-> "Ok", err |-> "None", len |-> 0, internal |-> value]

Err(kind, n) == [tag |-> "Err", err |-> kind, len |-> n, internal |-> 0]

Panicked == [tag |-> "Panic", err |-> "None", len |-> 0, internal |-> 0]

NoResult == [tag |-> "None", err |-> "None", len |-> 0, internal |-> 0]

(***************************************************************************)
(* src/lib.rs: calculate_checksum_digit                                    *)
(***************************************************************************)
RECURSIVE checksum_sum(_, _)
checksum_sum(kennitala, i) ==
    IF i = 8 THEN 0
    ELSE u32_add(u8_mul(K(kennitala, i), K(VALIDATION_DIGITS, i)),
                 checksum_sum(kennitala, i + 1))

\* mutant: a remainder of 0 is not mapped to the digit 0
calculate_checksum_digit_no_zero(kennitala) ==
    LET sum == checksum_sum(kennitala, 0)
        digit == 11 - (sum % 11)
    IN  IF sum = PANIC THEN PANIC ELSE digit

calculate_checksum_digit(kennitala) ==
    LET sum == checksum_sum(kennitala, 0)
        sum_mod_11 == sum % 11
        digit == IF sum_mod_11 = 0 THEN 0 ELSE 11 - sum_mod_11
    IN  IF sum = PANIC \/ ~(digit <= 10) THEN PANIC ELSE digit

(***************************************************************************)
(* src/lib.rs: Kennitala::from_slice                                       *)
(***************************************************************************)
random_digits(kennitala) ==
    u8_add(u8_mul(K(kennitala, 6), 10), K(kennitala, 7))

year_offset(century_digit) == IF century_digit = 0 THEN 2000 ELSE 1900

dob_month(kennitala) == u32_add(u8_mul(K(kennitala, 2), 10), K(kennitala, 3))

dob_year(kennitala) == u32_add(u8_mul(K(kennitala, 4), 10), K(kennitala, 5))

dob_day(kennitala) == u32_add(u8_mul(K(kennitala, 0), 10), K(kennitala, 1))

rest(kennitala) ==
    u32_add(u32_add(u32_mul(K(kennitala, 6), 100), u8_mul(K(kennitala, 7), 10)),
            K(kennitala, 8))

pack(day, month, year, rst, century_digit) ==
    u32_add(u32_add(u32_add(u32_add(Shl(day, DAY_OFFSET),
                                    Shl(month, MONTH_OFFSET)),
                            Shl(year, YEAR_OFFSET)),
                    Shl(rst, REST_OFFSET)),
            Shl(IF century_digit = 0 THEN 1 ELSE 0, CENTURY_OFFSET))

\* mutant: day 00 is not rejected
day_above_only(day, dim) == day > dim

\* the day test of from_slice
day_out_of_range(day, dim) == (day > dim) \/ (day <= 0)

\* mutant: the month is validated before the century digit
from_slice_month_first(kennitala) ==
    LET checksum_digit == K(kennitala, 8)
        calculated_checksum_digit == calculate_checksum_digit(kennitala)
        century_digit == K(kennitala, 9)
        month == dob_month(kennitala)
        year == dob_year(kennitala)
        day == dob_day(kennitala)
        dim == days_in_month(month, year + year_offset(century_digit))
        value == pack(day, month, year, rest(kennitala), century_digit)
    IN  IF ~(\A j \in 1..10 : kennitala[j] <= 9) THEN Panicked
        ELSE IF calculated_checksum_digit = PANIC THEN Panicked
        ELSE IF checksum_digit # calculated_checksum_digit
            THEN Err("InvalidChecksum", 0)
        ELSE IF random_digits(kennitala) = PANIC THEN Panicked
        ELSE IF random_digits(kennitala) < 20 THEN Err("InvalidRandomDigits", 0)
        ELSE IF month = PANIC THEN Panicked
        ELSE IF (month > 12) \/ (month <= 0) THEN Err("InvalidMonth", 0)
        ELSE IF ~((century_digit = 0) \/ (century_digit = 9))
            THEN Err("InvalidCentury", 0)
        ELSE IF year = PANIC \/ day = PANIC \/ dim = PANIC THEN Panicked
        ELSE IF day_out_of_range(day, dim) THEN Err("InvalidDay", 0)
        ELSE IF value = PANIC THEN Panicked
        ELSE Ok(value)

from_slice(kennitala) ==
    LET checksum_digit == K(kennitala, 8)
        calculated_checksum_digit == calculate_checksum_digit(kennitala)
        century_digit == K(kennitala, 9)
        month == dob_month(kennitala)
        year == dob_year(kennitala)
        day == dob_day(kennitala)
        dim == days_in_month(month, year + year_offset(century_digit))
        value == pack(day, month, year, rest(kennitala), century_digit)
    IN  IF ~(\A j \in 1..10 : kennitala[j] <= 9) THEN Panicked
        ELSE IF calculated_checksum_digit = PANIC THEN Panicked
        ELSE IF checksum_digit # calculated_checksum_digit
            THEN Err("InvalidChecksum", 0)
        ELSE IF random_digits(kennitala) = PANIC THEN Panicked
        ELSE IF random_digits(kennitala) < 20 THEN Err("InvalidRandomDigits", 0)
        ELSE IF ~((century_digit = 0) \/ (century_digit = 9))
            THEN Err("InvalidCentury", 0)
        ELSE IF month = PANIC THEN Panicked
        ELSE IF (month > 12) \/ (month <= 0) THEN Err("InvalidMonth", 0)
        ELSE IF year = PANIC \/ day = PANIC \/ dim = PANIC THEN Panicked
        ELSE IF day_out_of_range(day, dim) THEN Err("InvalidDay", 0)
        ELSE IF value = PANIC THEN Panicked
        ELSE Ok(value)

(***************************************************************************)
(* src/lib.rs: Kennitala::new                                              *)
(***************************************************************************)
\* str::as_bytes: the UTF-8 encoding of one scalar value below 0x10000
utf8(c) ==
    IF c < 128 THEN <<c>>
    ELSE IF c < 2048 THEN <<192 + (c \div 64), 128 + (c % 64)>>
    ELSE <<224 + (c \div 4096), 128 + ((c \div 64) % 64), 128 + (c % 64)>>

RECURSIVE as_bytes(_)
as_bytes(s) == IF s = <<>> THEN <<>> ELSE utf8(Head(s)) \o as_bytes(Tail(s))

\* mutant: the length is checked before the characters
new_length_first(kennitala) ==
    LET only_numbers ==
            \A j \in 1..Len(kennitala) :
                (kennitala[j] >= 48) /\ (kennitala[j] <= 57)
        bytes == as_bytes(kennitala)
        kennitala_array == [j \in 1..10 |-> u8_sub(bytes[j], 48)]
    IN  IF Len(bytes) # 10 THEN Err("InvalidLength", Len(bytes))
        ELSE IF ~only_numbers THEN Err("InvalidNumber", 0)
        ELSE IF \E j \in 1..10 : kennitala_array[j] = PANIC THEN Panicked
        ELSE from_slice(kennitala_array)

\* mutant: the character test has no lower bound
new_no_lower_bound(kennitala) ==
    LET only_numbers == \A j \in 1..Len(kennitala) : kennitala[j] <= 57
        bytes == as_bytes(kennitala)
        kennitala_array == [j \in 1..10 |-> u8_sub(bytes[j], 48)]
    IN  IF ~only_numbers THEN Err("InvalidNumber", 0)
        ELSE IF Len(bytes) # 10 THEN Err("InvalidLength", Len(bytes))
        ELSE IF \E j \in 1..10 : kennitala_array[j] = PANIC THEN Panicked
        ELSE from_slice(kennitala_array)

new(kennitala) ==
    LET only_numbers ==
            \A j \in 1..Len(kennitala) :
                (kennitala[j] >= 48) /\ (kennitala[j] <= 57)
        bytes == as_bytes(kennitala)
        kennitala_array == [j \in 1..10 |-> u8_sub(bytes[j], 48)]
    IN  IF ~only_numbers THEN Err("InvalidNumber", 0)
        ELSE IF Len(bytes) # 10 THEN Err("InvalidLength", Len(bytes))
        \* <[u8; 10]>::try_from(..).unwrap()
        ELSE IF Len(bytes) # 10 THEN Panicked
        ELSE IF \E j \in 1..10 : kennitala_array[j] = PANIC THEN Panicked
        ELSE from_slice(kennitala_array)

(***************************************************************************)
(* src/lib.rs: kt_to_array and Kennitala::from_u32.  A u32 is held as two  *)
(* 16-bit limbs, hi * 65536 + lo.                                          *)
(***************************************************************************)
LIMB == 65536

u32_is_zero(n) == n.hi = 0 /\ n.lo = 0

\* n % 10
u32_rem10(n) == (((n.hi % 10) * LIMB) + n.lo) % 10

\* n / 10
u32_div10(n) ==
    [hi |-> n.hi \div 10, lo |-> (((n.hi % 10) * LIMB) + n.lo) \div 10]

\* mutant: the digits are stored from the front of the array
RECURSIVE kt_loop_forward(_, _, _)
kt_loop_forward(n, i, array) ==
    IF ~u32_is_zero(n)
    THEN LET digit == u32_rem10(n)
         IN  IF ~(digit <= 9) \/ i > 9
             THEN [panic |-> TRUE, i |-> i, array |-> array]
             ELSE kt_loop_forward(u32_div10(n), i + 1, [array EXCEPT ![i + 1] = digit])
    ELSE [panic |-> FALSE, i |-> i, array |-> array]

RECURSIVE kt_loop(_, _, _)
kt_loop(n, i, array) ==
    IF ~u32_is_zero(n)
    THEN LET digit == u32_rem10(n)
         IN  IF ~(digit <= 9) \/ 9 - i < 0
             THEN [panic |-> TRUE, i |-> i, array |-> array]
             ELSE kt_loop(u32_div10(n), i + 1, [array EXCEPT ![(9 - i) + 1] = digit])
    ELSE [panic |-> FALSE, i |-> i, array |-> array]

\* mutant: nine digits are too few
kt_to_array_ten(kt_integer, array) ==
    LET r == kt_loop(kt_integer, 0, array)
    IN  IF r.panic THEN [tag |-> "Panic", len |-> 0, array |-> r.array]
        ELSE IF r.i < 10 THEN [tag |-> "Err", len |-> r.i, array |-> r.array]
        ELSE [tag |-> "Ok", len |-> 0, array |-> r.array]

kt_to_array(kt_integer, array) ==
    LET r == kt_loop(kt_integer, 0, array)
    IN  IF r.panic THEN [tag |-> "Panic", len |-> 0, array |-> r.array]
        ELSE IF r.i < 9 THEN [tag |-> "Err", len |-> r.i, array |-> r.array]
        ELSE [tag |-> "Ok", len |-> 0, array |-> r.array]

from_u32(kennitala_u32) ==
    LET r == kt_to_array(kennitala_u32, [j \in 1..10 |-> 0])
    IN  IF r.tag = "Panic" THEN Panicked
        ELSE IF r.tag = "Err" THEN Err("InvalidLength", r.len)
        ELSE from_slice(r.array)

(***************************************************************************)
(* src/lib.rs: accessors                                                   *)
(***************************************************************************)
get_day(internal) ==
    LET day == Shr(BitAnd(internal, DAY_MASK), DAY_OFFSET)
    IN  IF (day >= 1) /\ (day <= 31) THEN day ELSE PANIC

get_month(internal) ==
    LET month == Shr(BitAnd(internal, MONTH_MASK), MONTH_OFFSET)
    IN  IF (month >= 1) /\ (month <= 12) THEN month ELSE PANIC

get_short_year(internal) ==
    LET short_year == Shr(BitAnd(internal, YEAR_MASK), YEAR_OFFSET)
    IN  IF short_year <= 99 THEN short_year ELSE PANIC

get_century_bit(internal) ==
    LET bit == Shr(BitAnd(internal, CENTURY_MASK), CENTURY_OFFSET)
    IN  IF (bit = 0) \/ (bit = 1) THEN bit ELSE PANIC

get_year(internal) ==
    LET bit == get_century_bit(internal)
        offset == IF bit = 0 THEN 1900 ELSE 2000
    IN  IF bit = PANIC THEN PANIC ELSE u32_add(get_short_year(internal), offset)

get_short_century(internal) ==
    LET bit == get_century_bit(internal)
    IN  IF bit = PANIC THEN PANIC ELSE IF bit = 0 THEN 9 ELSE 0

get_randoms(internal) ==
    LET randoms == Shr(BitAnd(internal, REST_MASK), REST_OFFSET)
    IN  IF (randoms >= 20) /\ (randoms <= 999) THEN randoms ELSE PANIC

(***************************************************************************)
(* src/lib.rs: impl fmt::Display for Kennitala                             *)
(***************************************************************************)
RECURSIVE to_decimal(_)
to_decimal(x) ==
    IF x < 10 THEN <<48 + x>> ELSE to_decimal(x \div 10) \o <<48 + (x % 10)>>

RECURSIVE zero_pad(_, _)
zero_pad(s, width) == IF Len(s) >= width THEN s ELSE zero_pad(<<48>> \o s, width)

\* mutant: {} in place of {:0width$}
fmt_width_unpadded(x, width) == to_decimal(x)

\* {:0width$}
fmt_width(x, width) == zero_pad(to_decimal(x), width)

to_string(internal) ==
    LET day == get_day(internal)
        month == get_month(internal)
        short_year == get_short_year(internal)
        randoms == get_randoms(internal)
        short_century == get_short_century(internal)
    IN  IF PANIC \in {day, month, short_year, randoms, short_century}
        THEN <<PANIC>>
        ELSE fmt_width(day, 2) \o fmt_width(month, 2) \o fmt_width(short_year, 2)
             \o fmt_width(randoms, 3) \o to_decimal(short_century)

(***************************************************************************)
(* Inputs.                                                                 *)
(***************************************************************************)
Chars(digits) == [j \in 1..Len(digits) |-> 48 + digits[j]]

Digits(s) == [j \in 1..Len(s) |-> s[j] - 48]

TwoDigits(v) == <<v \div 10, v % 10>>

Days == 0..MaxDay
Months == 0..MaxMonth
Years == (0..MaxYear) \cup {99}
RandomPairs == {<<0, 1>>, <<1, 9>>, <<2, 0>>, <<9, 9>>}
CenturyDigits == {0, 8, 9}

\* DDMMYYRRCQ
GridString(d, m, y, r, c, q) ==
    Chars(TwoDigits(d) \o TwoDigits(m) \o TwoDigits(y) \o r \o <<c, q>>)

\* the strings of the crate's tests
ValidVectors ==
    { Chars(<<3, 1, 1, 0, 0, 0, 2, 9, 2, 0>>),
      Chars(<<1, 7, 0, 3, 7, 1, 5, 9, 3, 9>>),
      Chars(<<0, 3, 1, 1, 2, 0, 3, 1, 4, 9>>) }

TestVectors ==
    ValidVectors \cup
    { Chars(<<3, 9, 9, 9, 9, 9, 9, 9, 9, 9>>),
      Chars(<<4, 2, 9, 4, 9, 6, 7, 2, 9, 5>>),
      Chars(<<9, 9, 9, 9>>),
      Chars(<<0, 1, 0, 1, 1, 4, 1, 3, 3, 0, 0>>) }

\* '/', '0', '9', ':', U+00E9
Alphabet == {47, 48, 57, 58, 233}
NonDigits == {47, 58, 97, 233}

ShortStrings == UNION { [1..n -> Alphabet] : n \in 0..MaxShortLen }

\* a valid string with one character replaced, cut short, or extended
DamagedStrings ==
    { [v EXCEPT ![p] = c] : v \in ValidVectors, p \in 1..10, c \in NonDigits }
    \cup { SubSeq(v, 1, n) : v \in ValidVectors, n \in 0..9 }
    \cup { v \o <<48 + d>> : v \in ValidVectors, d \in 0..9 }
    \cup { v \o <<c>> : v \in ValidVectors, c \in NonDigits }

StrExtras == TestVectors \cup ShortStrings \cup DamagedStrings

\* the u32 a string of decimal digits denotes; hi > 65535 when it exceeds u32::MAX
RECURSIVE parse_u32(_, _)
parse_u32(s, acc) ==
    IF s = <<>> \/ acc.hi >= LIMB THEN acc
    ELSE LET lo == acc.lo * 10 + (Head(s) - 48)
         IN  parse_u32(Tail(s), [hi |-> acc.hi * 10 + (lo \div LIMB), lo |-> lo % LIMB])

U32Of(s) == parse_u32(s, [hi |-> 0, lo |-> 0])

\* 0..MaxSmallN, 9, 99, .., 999999999, 10, 100, .., 1000000000
SmallPadded ==
    { zero_pad(to_decimal(v), 10) : v \in 0..MaxSmallN }
    \cup { zero_pad([j \in 1..k |-> 57], 10) : k \in 1..9 }
    \cup { zero_pad(<<49>> \o [j \in 1..k |-> 48], 10) : k \in 1..9 }

PaddedExtras == SmallPadded \cup { v \in TestVectors : Len(v) = 10 }

StrInput(s) == [kind |-> "str", s |-> s, n |-> [hi |-> 0, lo |-> 0]]

\* p is the zero-padded decimal form of the integer given to from_u32
U32Input(p) == [kind |-> "u32", s |-> p, n |-> U32Of(p)]

NoFields ==
    [day |-> 0, month |-> 0, short_year |-> 0, short_century |-> 0,
     randoms |-> 0, year |-> 0, century_bit |-> 0]

(***************************************************************************)
(* The state machine: one constructor call on the input, then the          *)
(* accessors and to_string on the value it returned (the fuzz target and   *)
(* the unit tests).                                                        *)
(***************************************************************************)
Init ==
    /\ \/ \E d \in Days, m \in Months, y \in Years, r \in RandomPairs,
              c \in 0..9, q \in CenturyDigits, kind \in {"str", "u32"} :
              LET g == GridString(d, m, y, r, c, q)
              IN  IF kind = "str" THEN input = StrInput(g)
                  ELSE U32Of(g).hi < LIMB /\ input = U32Input(g)
       \/ \E s \in StrExtras : input = StrInput(s)
       \/ \E p \in PaddedExtras : U32Of(p).hi < LIMB /\ input = U32Input(p)
    /\ pc = "ready"
    /\ result = NoResult
    /\ fields = NoFields
    /\ text = <<>>

CallNew ==
    /\ pc = "ready"
    /\ input.kind = "str"
    /\ result' = new(input.s)
    /\ pc' = "returned"
    /\ UNCHANGED <<input, fields, text>>

CallFromU32 ==
    /\ pc = "ready"
    /\ input.kind = "u32"
    /\ result' = from_u32(input.n)
    /\ pc' = "returned"
    /\ UNCHANGED <<input, fields, text>>

ReadAccessors ==
    /\ pc = "returned"
    /\ result.tag = "Ok"
    /\ fields' = [day |-> get_day(result.internal),
                  month |-> get_month(result.internal),
                  short_year |-> get_short_year(result.internal),
                  short_century |-> get_short_century(result.internal),
                  randoms |-> get_randoms(result.internal),
                  year |-> get_year(result.internal),
                  century_bit |-> get_century_bit(result.internal)]
    /\ pc' = "read"
    /\ UNCHANGED <<input, result, text>>

ToString ==
    /\ pc = "read"
    /\ text' = to_string(result.internal)
    /\ pc' = "done"
    /\ UNCHANGED <<input, result, fields>>

Next == CallNew \/ CallFromU32 \/ ReadAccessors \/ ToString

Spec == Init /\ [][Next]_vars

(***************************************************************************)
(* Vocabulary of the properties.                                           *)
(***************************************************************************)
Returned == pc # "ready"

Read == pc \in {"read", "done"}

IsDigits(s) == \A j \in 1..Len(s) : s[j] \in 48..57

TenDigits(s) == Len(s) = 10 /\ IsDigits(s)

\* digit i (from 0) of the input
D(i) == input.s[i + 1] - 48

Day == D(0) * 10 + D(1)
Month == D(2) * 10 + D(3)
ShortYear == D(4) * 10 + D(5)
FullYear == ShortYear + (IF D(9) = 0 THEN 2000 ELSE 1900)

Checksum ==
    LET r == (D(0) * 3 + D(1) * 2 + D(2) * 7 + D(3) * 6
              + D(4) * 5 + D(5) * 4 + D(6) * 3 + D(7) * 2) % 11
    IN  IF r = 0 THEN 0 ELSE 11 - r

ChecksumOk == D(8) = Checksum
RandomsOk == D(6) * 10 + D(7) >= 20
CenturyOk == D(9) \in {0, 9}
MonthOk == Month \in 1..12
DayOk == MonthOk /\ 1 <= Day /\ Day <= days_in_month(Month, FullYear)

Gregorian(y) == y % 4 = 0 /\ (y % 100 # 0 \/ y % 400 = 0)

RECURSIVE LeadingZeros(_)
LeadingZeros(s) ==
    IF s # <<>> /\ Head(s) = 48 THEN 1 + LeadingZeros(Tail(s)) ELSE 0

\* the number of decimal digits of the integer whose padded form is the input
SigDigits == 10 - LeadingZeros(input.s)

(***************************************************************************)
(* Properties.                                                             *)
(***************************************************************************)

\* C1: round trip. When Kennitala::new(s) returned Ok(k), to_string of k is
\* exactly s.
C1_RoundTrip ==
    (pc = "done" /\ input.kind = "str") => text = input.s

\* a string with leading zeros in day, month and year was parsed and printed
C1_Witness ==
    /\ pc = "done" /\ input.kind = "str"
    /\ D(0) = 0 /\ D(2) = 0 /\ D(4) = 0
    /\ text = input.s

C3_AccessorsLiteral ==
    Read =>
        /\ fields.day = D(0) * 10 + D(1)
        /\ fields.month = D(2) * 10 + D(3)
        /\ fields.short_year = D(4) * 10 + D(5)
        /\ fields.randoms = D(6) * 100 + D(7) * 10 + D(8)
        /\ fields.short_century = D(9)
        /\ (D(9) = 0 => fields.year = fields.short_year + 2000)
        /\ (D(9) = 9 => fields.year = fields.short_year + 1900)

\* the accessors of "1703715939" were read
C3_Witness ==
    /\ pc = "read"
    /\ input.s = Chars(<<1, 7, 0, 3, 7, 1, 5, 9, 3, 9>>)
    /\ fields.day = 17 /\ fields.month = 3 /\ fields.short_year = 71
    /\ fields.randoms = 593 /\ fields.short_century = 9 /\ fields.year = 1971

\* C4: every Kennitala returned by new or from_u32 has day in 1..31, month in
\* 1..12, short year in 0..99, year in 1900..2099, short century 0 or 9,
\* century bit 0 or 1 and randoms in 20..999, so that no debug_assert! of an
\* accessor fails.
C4_RangeInvariants ==
    Read =>
        /\ fields.day \in 1..31
        /\ fields.month \in 1..12
        /\ fields.short_year \in 0..99
        /\ fields.year \in 1900..2099
        /\ fields.short_century \in {0, 9}
        /\ fields.century_bit \in {0, 1}
        /\ fields.randoms \in 20..999

\* 31 December 1999, built by from_u32
C4_Witness ==
    /\ pc = "read" /\ input.kind = "u32"
    /\ fields.day = 31 /\ fields.month = 12 /\ fields.year = 1999

\* C5: a 10-digit string gets the first error in the order checksum, random
\* digits, century digit, month, day: each error is returned exactly when
\* its rule is violated and every earlier rule holds.
C5_ErrorPrecedence ==
    (Returned /\ input.kind = "str" /\ TenDigits(input.s)) =>
        /\ result.tag \in {"Ok", "Err"}
        /\ result.tag = "Err" =>
              result.err \in {"InvalidChecksum", "InvalidRandomDigits",
                              "InvalidCentury", "InvalidMonth", "InvalidDay"}
        /\ result.err = "InvalidChecksum" <=> ~ChecksumOk
        /\ result.err = "InvalidRandomDigits" <=> (ChecksumOk /\ ~RandomsOk)
        /\ result.err = "InvalidCentury" <=>
              (ChecksumOk /\ RandomsOk /\ ~CenturyOk)
        /\ result.err = "InvalidMonth" <=>
              (ChecksumOk /\ RandomsOk /\ CenturyOk /\ ~MonthOk)
        /\ result.err = "InvalidDay" <=>
              (ChecksumOk /\ RandomsOk /\ CenturyOk /\ MonthOk /\ ~DayOk)

\* century and month are both wrong and the century error is the one returned
C5_Witness ==
    /\ pc = "returned" /\ input.kind = "str" /\ TenDigits(input.s)
    /\ ChecksumOk /\ RandomsOk /\ ~CenturyOk /\ ~MonthOk
    /\ result = Err("InvalidCentury", 0)

\* C6: Kennitala::new(s) returns InvalidNumber for every s with a character
\* outside '0'..'9', whatever its length, and InvalidLength(n) for every s of
\* n ASCII digits with n different from 10.
C6_StructuralErrors ==
    (Returned /\ input.kind = "str") =>
        /\ ~IsDigits(input.s) => result = Err("InvalidNumber", 0)
        /\ (IsDigits(input.s) /\ Len(input.s) # 10) =>
              result = Err("InvalidLength", Len(input.s))

\* a string that has both a foreign character and a wrong length
C6_Witness ==
    /\ pc = "returned" /\ input.kind = "str"
    /\ ~IsDigits(input.s) /\ Len(input.s) = 11
    /\ result = Err("InvalidNumber", 0)

\* C7: no constructor call panics: neither new nor from_u32 overflows a u8,
\* unwraps an Err, indexes out of bounds or fails a debug_assert!.
C7_NoPanic ==
    Returned => result.tag \in {"Ok", "Err"}

\* from_u32(u32::MAX) returned
C7_Witness ==
    /\ pc = "returned" /\ input.kind = "u32"
    /\ input.n = [hi |-> 65535, lo |-> 65535]
    /\ result.tag = "Err"

\* C8: from_u32(n) returns Ok exactly when new(p) does, p being the decimal
\* form of n zero-padded to 10 characters, and then both return the same
\* Kennitala.
C8_NumericEquivalence ==
    (Returned /\ input.kind = "u32") =>
        LET r == new(input.s)
        IN  /\ result.tag = "Ok" <=> r.tag = "Ok"
            /\ result.tag = "Ok" =>
                  /\ result.internal = r.internal
                  /\ to_string(result.internal) = input.s

\* a 9-digit integer was accepted
C8_Witness ==
    /\ pc = "returned" /\ input.kind = "u32"
    /\ SigDigits = 9 /\ result.tag = "Ok"

\* C9: from_u32(n) returns InvalidLength(k), k the number of decimal digits
\* of n, when k < 9, and goes on to the checksum and date validation, never
\* returning InvalidLength, when k is 9 or 10.
C9_NumericLength ==
    (Returned /\ input.kind = "u32") =>
        /\ SigDigits < 9 => result = Err("InvalidLength", SigDigits)
        /\ SigDigits >= 9 =>
              /\ result.err # "InvalidLength"
              /\ result = from_slice(Digits(input.s))

\* an 8-digit integer was rejected for its length
C9_Witness ==
    /\ pc = "returned" /\ input.kind = "u32"
    /\ SigDigits = 8 /\ result = Err("InvalidLength", 8)

\* C10: for a 10-digit string passing the checksum, random-digit, century and
\* month checks, 29 February is accepted exactly in Gregorian leap years of
\* the full year and is InvalidDay otherwise; 30 and 31 February, the 31st of
\* April, June, September and November and day 00 are InvalidDay.
C10_LeapDay ==
    (Returned /\ input.kind = "str" /\ TenDigits(input.s)
     /\ ChecksumOk /\ RandomsOk /\ CenturyOk /\ MonthOk) =>
        /\ (Month = 2 /\ Day = 29) =>
              IF Gregorian(FullYear) THEN result.tag = "Ok"
              ELSE result = Err("InvalidDay", 0)
        /\ (Month = 2 /\ Day \in {30, 31}) => result = Err("InvalidDay", 0)
        /\ (Month \in {4, 6, 9, 11} /\ Day = 31) => result = Err("InvalidDay", 0)
        /\ Day = 0 => result = Err("InvalidDay", 0)

\* 29 February 1900 was rejected
C10_Witness ==
    /\ pc = "returned" /\ input.kind = "str" /\ TenDigits(input.s)
    /\ Day = 29 /\ Month = 2 /\ ShortYear = 0 /\ D(9) = 9
    /\ ChecksumOk /\ RandomsOk
    /\ result = Err("InvalidDay", 0)
====
